---- MODULE Spec2Model ----
(***************************************************************************)
(* A model of agents.py: the Environment protocol (add_object, is_done,    *)
(* step, run), the two-location TrivialVacuumEnvironment, the grid         *)
(* XYEnvironment with its VacuumEnvironment subclass, the agent programs   *)
(* of the vacuum world, and compare_agents / test_agent.                   *)
(*                                                                         *)
(* An environment is a record `env`; a Python attribute dictionary         *)
(* (obj.location, obj.bump, ...) is a function whose DOMAIN is the set of  *)
(* objects that have the attribute.  Every method is an operator from the  *)
(* environment (and its arguments) to [env, err, ret]: the environment     *)
(* after the call, the exception it raised ("none" when it returned) and   *)
(* the value it returned ("None", "self", or a value used by the caller).  *)
(***************************************************************************)
EXTENDS Integers, Sequences, FiniteSets, TLC

VARIABLES
    env,       \* the environment and the attributes of its objects
    last,      \* the last call made on the environment, with the state before it
    pc,        \* where control is: "idle", "run", "percept", "act", "exo"
    idx,       \* step(): the position in self.agents being handled
    actions,   \* step(): the list `actions` built by the comprehension
    percepts,  \* step(): the percepts handed to the programs in this tick
    calls,     \* step(): the calls made so far in the current (or last) tick
    snapshot,  \* step(): the environment as it was when the tick began
    run,       \* run(steps): the loop's argument, counter and ticks performed
    hist,      \* the construction, the registrations and the <<agent, action>>
               \* pairs executed by ticks so far (two-location environment)
    clock,     \* execute_action calls made or due so far (bounds the model)
    memory,    \* what each agent program keeps between its calls (the variables
               \* its closure captured)
    test       \* compare_agents / test_agent: their locals and the environment
               \* objects they hold

vars == <<env, last, pc, idx, actions, percepts, calls, snapshot, run, hist,
          clock, memory, test>>

harness == <<memory, test>>

ctl == <<pc, idx, actions, percepts, calls, snapshot, run>>

----------------------------------------------------------------------------
(* Bounds of the model. *)

\* execute_action calls made in one behaviour, by ticks or by a client
MaxCalls == 3

\* the grid of the spatial model (the code's default is 10 x 10)
Width == 4

Height == 3

----------------------------------------------------------------------------
(* Values. *)

None == <<>>

loc_A == <<0, 0>>

loc_B == <<1, 0>>

\* Python's None as an action value (TableDrivenAgent's table.get miss).
NoneAction == "None"

\* An object is <<class name, number>>.
ClassOf(o) == o[1]

\* The classes an instance of class c is an instance of (isinstance).
Bases(c) ==
    CASE c = "Wall"     -> {"Wall", "Obstacle", "Object"}
      [] c = "Obstacle" -> {"Obstacle", "Object"}
      [] c = "Agent"    -> {"Agent", "Object"}
      [] c = "Dirt"     -> {"Dirt", "Object"}
      [] OTHER          -> {"Object"}

isinstance(o, oclass) == oclass \in Bases(ClassOf(o))

hasattr(f, o) == o \in DOMAIN f

\* obj.attr = v
setattr(f, o, v) == [x \in (DOMAIN f) \cup {o} |-> IF x = o THEN v ELSE f[x]]

\* The objects of the two models.
TrivialPool == {<<"Agent", 1>>, <<"Agent", 2>>}

XYPool == {<<"Agent", 1>>, <<"Dirt", 1>>, <<"Obstacle", 1>>}

AgentsOf(pool) == {o \in pool : isinstance(o, "Agent")}

Cells == {<<x, y>> : x \in 0 .. (Width - 1), y \in 0 .. (Height - 1)}

Headings == {<<1, 0>>, <<0, 1>>, <<-1, 0>>, <<0, -1>>}

Result(e, err, ret) == [env |-> e, err |-> err, ret |-> ret]

----------------------------------------------------------------------------
(* Object and Environment. *)

is_alive(e, o) == hasattr(e.alive, o) /\ e.alive[o]

\* is_done() that looks for an agent, not for a live one
is_done_any_agent(e) == Len(e.agents) = 0

RECURSIVE is_done_from(_, _)
is_done_from(e, i) ==
    IF i > Len(e.agents) THEN TRUE
    ELSE IF is_alive(e, e.agents[i]) THEN FALSE
    ELSE is_done_from(e, i + 1)

is_done(e) == is_done_from(e, 1)

\* exogenous_change() that lets dirt come back
exogenous_change_dirties(e) ==
    IF e.cls = "Trivial" THEN [e EXCEPT !.status[loc_A] = "Dirty"] ELSE e

exogenous_change(e) == e

\* default_location(object); `rnd` is the value random.choice draws.  The grid's
\* random.choice(self.width) indexes an int and raises.
default_location(e, o, rnd) ==
    IF e.cls = "Trivial" THEN Result(e, "none", rnd)
    ELSE Result(e, "TypeError", "None")

TrivialDefaults == {loc_A, loc_B}

\* Environment.add_object(object, location)
Environment_add_object(e, o, location, rnd) ==
    LET d == IF location # None THEN Result(e, "none", location)
             ELSE default_location(e, o, rnd)
    IN  IF d.err # "none" THEN Result(e, d.err, "None")
        ELSE
          LET e1 == [e EXCEPT !.location = setattr(@, o, d.ret),
                              !.objects = Append(@, o)]
              e2 == IF isinstance(o, "Agent")
                    THEN [e1 EXCEPT !.performance = setattr(@, o, 0),
                                    !.agents = Append(@, o)]
                    ELSE e1
          IN  Result(e2, "none", "self")

----------------------------------------------------------------------------
(* TrivialVacuumEnvironment. *)

Trivial_percept(e, agent) ==
    <<e.location[agent], e.status[e.location[agent]]>>

\* execute_action whose Suck scores whether or not the location was Dirty
Trivial_execute_action_suck_scores(e, agent, action) ==
    CASE action = "Right" ->
           Result([e EXCEPT !.location[agent] = loc_B,
                            !.performance[agent] = @ - 1], "none", "None")
      [] action = "Left" ->
           Result([e EXCEPT !.location[agent] = loc_A,
                            !.performance[agent] = @ - 1], "none", "None")
      [] action = "Suck" ->
           Result([e EXCEPT !.performance[agent] = @ + 10,
                            !.status[e.location[agent]] = "Clean"],
                  "none", "None")
      [] OTHER -> Result(e, "none", "None")

\* execute_action whose Suck scores and leaves the location as it was
Trivial_execute_action_suck_leaves_dirt(e, agent, action) ==
    CASE action = "Right" ->
           Result([e EXCEPT !.location[agent] = loc_B,
                            !.performance[agent] = @ - 1], "none", "None")
      [] action = "Left" ->
           Result([e EXCEPT !.location[agent] = loc_A,
                            !.performance[agent] = @ - 1], "none", "None")
      [] action = "Suck" ->
           Result(IF e.status[e.location[agent]] = "Dirty"
                  THEN [e EXCEPT !.performance[agent] = @ + 10]
                  ELSE e, "none", "None")
      [] OTHER -> Result(e, "none", "None")

\* execute_action that charges 1 for an action it does not know
Trivial_execute_action_charges_unknown(e, agent, action) ==
    CASE action = "Right" ->
           Result([e EXCEPT !.location[agent] = loc_B,
                            !.performance[agent] = @ - 1], "none", "None")
      [] action = "Left" ->
           Result([e EXCEPT !.location[agent] = loc_A,
                            !.performance[agent] = @ - 1], "none", "None")
      [] action = "Suck" ->
           LET e1 == IF e.status[e.location[agent]] = "Dirty"
                     THEN [e EXCEPT !.performance[agent] = @ + 10]
                     ELSE e
           IN  Result([e1 EXCEPT !.status[e.location[agent]] = "Clean"],
                      "none", "None")
      [] OTHER -> Result([e EXCEPT !.performance[agent] = @ - 1],
                         "none", "None")

Trivial_execute_action(e, agent, action) ==
    CASE action = "Right" ->
           Result([e EXCEPT !.location[agent] = loc_B,
                            !.performance[agent] = @ - 1], "none", "None")
      [] action = "Left" ->
           Result([e EXCEPT !.location[agent] = loc_A,
                            !.performance[agent] = @ - 1], "none", "None")
      [] action = "Suck" ->
           LET e1 == IF e.status[e.location[agent]] = "Dirty"
                     THEN [e EXCEPT !.performance[agent] = @ + 10]
                     ELSE e
           IN  Result([e1 EXCEPT !.status[e.location[agent]] = "Clean"],
                      "none", "None")
      [] OTHER -> Result(e, "none", "None")

\* The actions RandomVacuumAgent's program draws from; the model's programs
\* return any of them.
VacuumActions == {"Right", "Left", "Suck", "NoOp"}

----------------------------------------------------------------------------
(* The agent programs of the two-location world.  A program is called with  *)
(* what it kept from its earlier calls (mem), the percept, and the value    *)
(* random.choice draws; it returns its action and what it keeps.            *)

Policies == {"ModelBasedVacuumAgent", "ReflexVacuumAgent",
             "TableDrivenVacuumAgent", "RandomVacuumAgent"}

\* ReflexVacuumAgent's program((location, status))
ReflexVacuumAgent_program(percept) ==
    LET location == percept[1]
        status == percept[2]
    IN  IF status = "Dirty" THEN "Suck"
        ELSE IF location = loc_A THEN "Right"
        ELSE IF location = loc_B THEN "Left"
        ELSE NoneAction

\* The table of TableDrivenVacuumAgent: percept sequences to actions.
table ==
    (<< <<loc_A, "Clean">> >> :> "Right")
    @@ (<< <<loc_A, "Dirty">> >> :> "Suck")
    @@ (<< <<loc_B, "Clean">> >> :> "Left")
    @@ (<< <<loc_B, "Dirty">> >> :> "Suck")
    @@ (<< <<loc_A, "Clean">>, <<loc_A, "Clean">> >> :> "Right")
    @@ (<< <<loc_A, "Clean">>, <<loc_A, "Dirty">> >> :> "Suck")
    @@ (<< <<loc_A, "Clean">>, <<loc_A, "Clean">>, <<loc_A, "Clean">> >>
          :> "Right")
    @@ (<< <<loc_A, "Clean">>, <<loc_A, "Clean">>, <<loc_A, "Dirty">> >>
          :> "Suck")

\* table.get(tuple(percepts))
table_get(t, key) == IF key \in DOMAIN t THEN t[key] ELSE NoneAction

\* TableDrivenAgent's program(percept), `kept` being the list `percepts` of
\* its closure; the key is the sequence of all percepts so far
TableDrivenAgent_program(kept, percept) ==
    LET ps == Append(kept, percept)
    IN  [action |-> table_get(table, ps), percepts |-> ps]

\* ModelBasedVacuumAgent's program that does not update its model
ModelBasedVacuumAgent_program_no_update(model, percept) ==
    LET location == percept[1]
        status == percept[2]
    IN  [action |-> IF model[loc_A] = "Clean" /\ model[loc_B] = "Clean"
                    THEN "NoOp"
                    ELSE IF status = "Dirty" THEN "Suck"
                    ELSE IF location = loc_A THEN "Right"
                    ELSE IF location = loc_B THEN "Left"
                    ELSE NoneAction,
         model |-> model]

\* ModelBasedVacuumAgent's program((location, status)), `model` being the
\* dictionary it keeps
ModelBasedVacuumAgent_program(model, percept) ==
    LET location == percept[1]
        status == percept[2]
        m == setattr(model, location, status)
    IN  [action |-> IF m[loc_A] = "Clean" /\ m[loc_B] = "Clean" THEN "NoOp"
                    ELSE IF status = "Dirty" THEN "Suck"
                    ELSE IF location = loc_A THEN "Right"
                    ELSE IF location = loc_B THEN "Left"
                    ELSE NoneAction,
         model |-> m]

\* What the program of a new agent of the policy has captured.
NewMemory(policy) ==
    [policy |-> policy,
     model |-> [l \in {loc_A, loc_B} |-> "None"],
     percepts |-> <<>>]

\* ReflexVacuumAgent's program that does nothing where it was before
ReflexVacuumAgent_program_remembers(mem, percept, draw) ==
    [action |-> IF percept \in {mem.percepts[i] : i \in 1 .. Len(mem.percepts)}
                THEN "NoOp" ELSE ReflexVacuumAgent_program(percept),
     mem |-> [mem EXCEPT !.percepts = Append(@, percept)]]

\* agent.program(percept) with a ReflexVacuumAgent that remembers
program_reflex_remembers(mem, percept, draw) ==
    CASE mem.policy = "ReflexVacuumAgent" ->
           ReflexVacuumAgent_program_remembers(mem, percept, draw)
      [] mem.policy = "RandomVacuumAgent" ->
           [action |-> draw, mem |-> mem]
      [] mem.policy = "TableDrivenVacuumAgent" ->
           LET r == TableDrivenAgent_program(mem.percepts, percept)
           IN  [action |-> r.action,
                mem |-> [mem EXCEPT !.percepts = r.percepts]]
      [] OTHER ->
           LET r == ModelBasedVacuumAgent_program(mem.model, percept)
           IN  [action |-> r.action, mem |-> [mem EXCEPT !.model = r.model]]

\* agent.program(percept)
program(mem, percept, draw) ==
    CASE mem.policy = "ReflexVacuumAgent" ->
           [action |-> ReflexVacuumAgent_program(percept), mem |-> mem]
      [] mem.policy = "RandomVacuumAgent" ->
           [action |-> draw, mem |-> mem]
      [] mem.policy = "TableDrivenVacuumAgent" ->
           LET r == TableDrivenAgent_program(mem.percepts, percept)
           IN  [action |-> r.action,
                mem |-> [mem EXCEPT !.percepts = r.percepts]]
      [] OTHER ->
           LET r == ModelBasedVacuumAgent_program(mem.model, percept)
           IN  [action |-> r.action, mem |-> [mem EXCEPT !.model = r.model]]

----------------------------------------------------------------------------
(* XYEnvironment. *)

\* utils.vector_add
vector_add(a, b) == <<a[1] + b[1], a[2] + b[2]>>

objects_at(e, location) ==
    SelectSeq(e.objects, LAMBDA obj : e.location[obj] = location)

\* find_at that wants the class itself, not a subclass of it
find_at_same_class(e, oclass, location) ==
    LET objs == objects_at(e, location)
    IN  \E i \in 1 .. Len(objs) : ClassOf(objs[i]) = oclass

\* some(lambda obj: isinstance(obj, oclass), self.objects_at(location))
find_at(e, oclass, location) ==
    LET objs == objects_at(e, location)
    IN  \E i \in 1 .. Len(objs) : isinstance(objs[i], oclass)

\* move_to that does not look for an Obstacle
move_to_unchecked(e, object, destination) ==
    Result([e EXCEPT !.bump = setattr(@, object, FALSE),
                     !.location = setattr(@, object, destination)],
           "none", "None")

move_to(e, object, destination) ==
    IF find_at(e, "Obstacle", destination)
    THEN Result([e EXCEPT !.bump = setattr(@, object, TRUE)], "none", "None")
    ELSE Result([e EXCEPT !.bump = setattr(@, object, FALSE),
                          !.location = setattr(@, object, destination)],
                "none", "None")

headings == << <<1, 0>>, <<0, 1>>, <<-1, 0>>, <<0, -1>> >>

\* The positional parameters turn_heading declares: self, heading, inc.
TurnHeadingParams == 3

index(seq, v) == CHOOSE i \in 1 .. Len(seq) :
                    seq[i] = v /\ \A j \in 1 .. (i - 1) : seq[j] # v

\* turn_heading called with the positional arguments `args`: they bind to
\* self, heading, inc in this order, and a missing one is a TypeError.
turn_heading(args) ==
    IF Len(args) < TurnHeadingParams THEN Result(None, "TypeError", "None")
    ELSE LET heading == args[2]
             inc == args[3]
         IN  IF \A i \in 1 .. Len(headings) : headings[i] # heading
             THEN Result(None, "ValueError", "None")
             ELSE Result(None, "none",
                         headings[(((index(headings, heading) - 1) + inc)
                                     % Len(headings)) + 1])

\* agent.bump = False, the last statement of XYEnvironment.execute_action
ResetBump(e, agent) == [e EXCEPT !.bump = setattr(@, agent, FALSE)]

\* The turn of execute_action: agent.heading = turn_heading(agent.heading, inc)
Turn(e, agent, inc) ==
    IF ~hasattr(e.heading, agent) THEN Result(e, "AttributeError", "None")
    ELSE LET r == turn_heading(<<e.heading[agent], inc>>)
         IN  IF r.err # "none" THEN Result(e, r.err, "None")
             ELSE Result(ResetBump([e EXCEPT !.heading[agent] = r.ret], agent),
                         "none", "None")

XY_execute_action(e, agent, action) ==
    CASE action = "TurnRight" -> Turn(e, agent, -1)
      [] action = "TurnLeft" -> Turn(e, agent, 1)
      [] action = "Forward" ->
           IF ~hasattr(e.heading, agent) THEN Result(e, "AttributeError", "None")
           ELSE LET m == move_to(e, agent,
                                 vector_add(e.heading[agent], e.location[agent]))
                IN  Result(ResetBump(m.env, agent), "none", "None")
      [] action = "Grab" ->
           \* Object defines no is_grabable: the first object tested raises.
           IF Len(objects_at(e, e.location[agent])) > 0
           THEN Result(e, "AttributeError", "None")
           ELSE Result(ResetBump(e, agent), "none", "None")
      [] action = "Release" ->
           IF Len(e.holding[agent]) > 0
           THEN Result(ResetBump([e EXCEPT !.holding[agent] =
                                     SubSeq(@, 1, Len(@) - 1)], agent),
                       "none", "None")
           ELSE Result(ResetBump(e, agent), "none", "None")
      [] OTHER -> Result(ResetBump(e, agent), "none", "None")

\* XYEnvironment.add_object(object, location=(1, 1))
XY_add_object(e, o, location, rnd) ==
    LET r == Environment_add_object(e, o, location, rnd)
    IN  IF r.err # "none" THEN Result(e, r.err, "None")
        ELSE Result([r.env EXCEPT !.holding = setattr(@, o, <<>>),
                                  !.held = setattr(@, o, None),
                                  !.objects = Append(@, o)],
                    "none", "None")

XYDefaultLocation == <<1, 1>>

\* Wall(): an object that did not exist before.
NewWall(e) ==
    <<"Wall", 1 + Cardinality({o \in DOMAIN e.location : ClassOf(o) = "Wall"})>>

AddWall(e, location) == XY_add_object(e, NewWall(e), location, None).env

RECURSIVE add_walls_x(_, _)
add_walls_x(e, x) ==
    IF x >= e.width THEN e
    ELSE add_walls_x(AddWall(AddWall(e, <<x, 0>>), <<x, e.height - 1>>), x + 1)

RECURSIVE add_walls_y(_, _)
add_walls_y(e, y) ==
    IF y >= e.height THEN e
    ELSE add_walls_y(AddWall(AddWall(e, <<0, y>>), <<e.width - 1, y>>), y + 1)

add_walls(e) == Result(add_walls_y(add_walls_x(e, 0), 0), "none", "None")

----------------------------------------------------------------------------
(* VacuumEnvironment. *)

\* if_(self.find_at(Dirt, agent.location), 'Dirty', 'Clean') and
\* if_(agent.bump, 'Bump', 'None')
Vacuum_percept(e, agent) ==
    <<IF find_at(e, "Dirt", e.location[agent]) THEN "Dirty" ELSE "Clean",
      IF e.bump[agent] THEN "Bump" ELSE "None">>

\* execute_action that charges nothing for an action it does not know
Vacuum_execute_action_known_only(e, agent, action) ==
    LET e1 == IF action = "Suck" /\ find_at(e, "Dirt", e.location[agent])
              THEN [e EXCEPT !.performance[agent] = @ + 100]
              ELSE e
        e2 == IF action \in {"TurnRight", "TurnLeft", "Forward", "Grab",
                             "Release", "Suck"}
              THEN [e1 EXCEPT !.performance[agent] = @ - 1]
              ELSE e1
    IN  XY_execute_action(e2, agent, action)

Vacuum_execute_action(e, agent, action) ==
    LET e1 == IF action = "Suck" /\ find_at(e, "Dirt", e.location[agent])
              THEN [e EXCEPT !.performance[agent] = @ + 100]
              ELSE e
        e2 == [e1 EXCEPT !.performance[agent] = @ - 1]
    IN  XY_execute_action(e2, agent, action)

GridActions == {"TurnRight", "TurnLeft", "Forward", "Grab", "Release",
                "Suck", "NoOp"}

----------------------------------------------------------------------------
(* The method each environment class binds. *)

percept(e, agent) ==
    IF e.cls = "Trivial" THEN Trivial_percept(e, agent)
    ELSE Vacuum_percept(e, agent)

execute_action(e, agent, action) ==
    CASE e.cls = "Trivial" -> Trivial_execute_action(e, agent, action)
      [] e.cls = "Vacuum" -> Vacuum_execute_action(e, agent, action)
      [] OTHER -> XY_execute_action(e, agent, action)

\* add_object(object) when `given` is false, add_object(object, location) else
add_object(e, o, given, location, rnd) ==
    IF e.cls = "Trivial"
    THEN Environment_add_object(e, o, IF given THEN location ELSE None, rnd)
    ELSE XY_add_object(e, o, IF given THEN location ELSE XYDefaultLocation, rnd)

----------------------------------------------------------------------------
(* The state machine. *)

NoObject == None

\* The `action` of a call that takes none.
NoAction == "-"

Call(op, obj, action, given, arg, r, pre) ==
    [op |-> op, obj |-> obj, action |-> action, given |-> given, arg |-> arg,
     err |-> r.err, ret |-> r.ret, pre |-> pre]

\* Agent.__init__ sets alive (a client may clear it) and bump; the other
\* attributes are set when the object is added to an environment.
NewEnv(cls, pool, alive, heading, status) ==
    [cls |-> cls, objects |-> <<>>, agents |-> <<>>,
     width |-> IF cls = "Trivial" THEN 0 ELSE Width,
     height |-> IF cls = "Trivial" THEN 0 ELSE Height,
     location |-> <<>>, performance |-> <<>>, holding |-> <<>>, held |-> <<>>,
     alive |-> alive, bump |-> [a \in AgentsOf(pool) |-> FALSE],
     heading |-> heading, status |-> status]

\* No run() was called since the last call by a client.
NoRun == [active |-> FALSE, steps |-> 0, i |-> 0, ticks |-> 0, done0 |-> FALSE]

\* Neither compare_agents nor test_agent was called.
NoTest == [call |-> "none"]

IdleCtl ==
    /\ pc = "idle" /\ idx = 0 /\ actions = <<>> /\ percepts = <<>>
    /\ calls = <<>> /\ snapshot = None
    /\ run = NoRun
    /\ hist = << <<NoObject, "__init__", env.status>> >>
    /\ clock = 0
    /\ memory = <<>> /\ test = NoTest

\* TrivialVacuumEnvironment(): each location Clean or Dirty at random.
InitTrivial ==
    /\ \E st \in [{loc_A, loc_B} -> {"Clean", "Dirty"}],
          al \in [AgentsOf(TrivialPool) -> BOOLEAN] :
          env = NewEnv("Trivial", TrivialPool, al, <<>>, st)
    /\ last = Call("init", NoObject, NoAction, FALSE, None,
                   Result(env, "none", "None"), env)
    /\ IdleCtl

Registered(e) == {e.objects[i] : i \in 1 .. Len(e.objects)}

\* env.add_object(o) or env.add_object(o, location), o not yet registered
AddObject(pool, places, rnds) ==
    /\ pc = "idle"
    /\ UNCHANGED harness
    /\ \E o \in pool \ Registered(env), given \in BOOLEAN,
          location \in places, rnd \in rnds :
          /\ given \/ location = None
          /\ LET r == add_object(env, o, given, location, rnd)
             IN  /\ env' = r.env
                 /\ last' = Call("add_object", o, NoAction, given, location, r, env)
                 /\ hist' = IF r.err = "none"
                            THEN Append(hist, <<o, "add_object",
                                                r.env.location[o]>>)
                            ELSE hist
    /\ calls' = <<>> /\ run' = NoRun
    /\ UNCHANGED <<pc, idx, actions, percepts, snapshot, clock>>

TrivialAddObject ==
    AddObject(TrivialPool, {None, loc_A, loc_B}, TrivialDefaults)

\* The body of step() once is_done() was false: the comprehension starts.
EnterTick ==
    /\ pc' = "percept" /\ idx' = 1
    /\ actions' = <<>> /\ percepts' = <<>> /\ calls' = <<>>
    /\ snapshot' = env
    /\ clock' = clock + Len(env.agents)

\* Where control goes when step() returns.
Return(r) == IF r.active THEN "run" ELSE "idle"

\* env.step(), called by a client
CallStep ==
    /\ pc = "idle"
    /\ UNCHANGED harness
    /\ IF is_done(env)
       THEN /\ last' = Call("step", NoObject, NoAction, FALSE, None,
                            Result(env, "none", "None"), env)
            /\ calls' = <<>> /\ run' = NoRun
            /\ UNCHANGED <<env, pc, idx, actions, percepts, snapshot, hist,
                           clock>>
       ELSE /\ clock + Len(env.agents) <= MaxCalls
            /\ EnterTick
            /\ run' = NoRun
            /\ UNCHANGED <<env, last, hist>>

\* step() that applies each agent's action as soon as its program returned
AfterProgram_interleaved(e, i) == <<"act", i>>

\* After agent i's program returned: the next element of the comprehension,
\* or the loop over zip(self.agents, actions).
AfterProgram(e, i) ==
    IF i < Len(e.agents) THEN <<"percept", i + 1>> ELSE <<"act", 1>>

\* After execute_action on the i-th pair: the next pair, or exogenous_change.
AfterExecute(e, i) ==
    IF i < Len(e.agents) THEN <<"act", i + 1>> ELSE <<"exo", 0>>

\* agent.program(self.percept(agent)) for the idx-th agent; the program
\* returns any action
StepPercept(programActions) ==
    /\ pc = "percept"
    /\ UNCHANGED harness
    /\ LET agent == env.agents[idx]
           p == percept(env, agent)
           nxt == AfterProgram(env, idx)
       IN  /\ \E action \in programActions : actions' = Append(actions, action)
           /\ percepts' = Append(percepts, p)
           /\ calls' = Append(calls, <<"percept", agent>>)
           /\ pc' = nxt[1] /\ idx' = nxt[2]
    /\ UNCHANGED <<env, last, snapshot, run, hist, clock>>

\* self.execute_action(agent, action) for the idx-th pair; an exception ends
\* step() (and run())
StepExecute ==
    /\ pc = "act"
    /\ UNCHANGED harness
    /\ LET agent == env.agents[idx]
           r == execute_action(env, agent, actions[idx])
           nxt == AfterExecute(env, idx)
       IN  /\ env' = r.env
           /\ last' = Call("execute_action", agent, actions[idx], FALSE, None,
                           r, env)
           /\ calls' = Append(calls, <<"execute_action", agent>>)
           /\ hist' = IF env.cls = "Trivial"
                      THEN Append(hist, <<agent, actions[idx]>>)
                      ELSE hist
           /\ IF r.err = "none"
              THEN /\ pc' = nxt[1] /\ idx' = nxt[2]
                   /\ UNCHANGED <<actions, percepts, snapshot, run>>
              ELSE /\ pc' = "idle" /\ idx' = 0
                   /\ actions' = <<>> /\ percepts' = <<>> /\ snapshot' = None
                   /\ run' = [run EXCEPT !.active = FALSE]
    /\ UNCHANGED clock

\* self.exogenous_change(), then step() returns
StepExogenous ==
    /\ pc = "exo"
    /\ UNCHANGED harness
    /\ env' = exogenous_change(env)
    /\ calls' = Append(calls, <<"exogenous_change", NoObject>>)
    /\ pc' = Return(run) /\ idx' = 0
    /\ actions' = <<>> /\ percepts' = <<>> /\ snapshot' = None
    /\ UNCHANGED <<last, run, hist, clock>>

\* env.run(steps), called by a client
CallRun ==
    /\ pc = "idle"
    /\ UNCHANGED harness
    /\ \E steps \in 0 .. MaxCalls :
          /\ is_done(env) \/ clock + steps * Len(env.agents) <= MaxCalls
          /\ run' = [active |-> TRUE, steps |-> steps, i |-> 0, ticks |-> 0,
                  done0 |-> is_done(env)]
    /\ pc' = "run"
    /\ calls' = <<>>
    /\ UNCHANGED <<env, last, idx, actions, percepts, snapshot, hist, clock>>

\* Whether the loop of run() goes round again: range(steps) is not exhausted
\* and is_done() is false.
RunContinues(e, r) == r.i < r.steps /\ ~is_done(e)

\* for step in range(steps): if self.is_done(): return; self.step()
RunLoop ==
    /\ pc = "run"
    /\ UNCHANGED harness
    /\ IF RunContinues(env, run)
       THEN IF is_done(env)
            THEN \* step() finds the environment done and does nothing
                 /\ run' = [run EXCEPT !.i = @ + 1]
                 /\ UNCHANGED <<env, last, pc, idx, actions, percepts, calls,
                                snapshot, hist, clock>>
            ELSE /\ run' = [run EXCEPT !.i = @ + 1, !.ticks = @ + 1]
                 /\ EnterTick
                 /\ UNCHANGED <<env, last, hist>>
       ELSE /\ run' = [run EXCEPT !.active = FALSE]
            /\ pc' = "idle"
            /\ UNCHANGED <<env, last, idx, actions, percepts, calls, snapshot,
                           hist, clock>>

NextTrivial ==
    \/ TrivialAddObject
    \/ CallStep
    \/ CallRun
    \/ RunLoop
    \/ StepPercept(VacuumActions)
    \/ StepExecute
    \/ StepExogenous

SpecTrivial == InitTrivial /\ [][NextTrivial]_vars

\* run() and step() are straight-line code: once called they proceed.
Running == RunLoop \/ StepPercept(VacuumActions) \/ StepExecute \/ StepExogenous

LiveSpecTrivial == SpecTrivial /\ WF_vars(Running)

----------------------------------------------------------------------------
(* The grid model: an XYEnvironment, called directly. *)

\* The explicit locations objects are added at.
PlaceCells == {<<1, 1>>, <<2, 1>>}

\* An agent's heading is set by its maker, or not at all: no code of the
\* environment sets it.
InitialHeadings == [AgentsOf(XYPool) -> Headings] \cup {<<>>}

\* XYEnvironment(Width, Height)
InitXY ==
    /\ \E hd \in InitialHeadings :
          env = NewEnv("XY", XYPool, [a \in AgentsOf(XYPool) |-> TRUE], hd,
                       <<>>)
    /\ last = Call("init", NoObject, NoAction, FALSE, None,
                   Result(env, "none", "None"), env)
    /\ IdleCtl

XYAddObject == AddObject(XYPool, {None} \cup PlaceCells, {None})

\* The destinations a client moves an agent to: the cells objects are added
\* at and a border cell.
MoveTargets == PlaceCells \cup {<<0, 1>>}

HasWalls(e) == \E o \in DOMAIN e.location : ClassOf(o) = "Wall"

\* env.add_walls(), once
AddWalls ==
    /\ pc = "idle"
    /\ UNCHANGED harness
    /\ ~HasWalls(env)
    /\ LET r == add_walls(env)
       IN  /\ env' = r.env
           /\ last' = Call("add_walls", NoObject, NoAction, FALSE, None, r, env)
    /\ UNCHANGED <<ctl, hist, clock>>

\* env.move_to(agent, destination), called by a client
MoveTo ==
    /\ pc = "idle"
    /\ UNCHANGED harness
    /\ \E i \in 1 .. Len(env.agents), destination \in MoveTargets :
          LET agent == env.agents[i]
              r == move_to(env, agent, destination)
          IN  /\ env' = r.env
              /\ last' = Call("move_to", agent, NoAction, TRUE, destination, r, env)
    /\ UNCHANGED <<ctl, hist, clock>>

\* env.execute_action(agent, action), called by a client; an agent that has
\* left the grid is not moved further
ExecuteAction ==
    /\ pc = "idle"
    /\ UNCHANGED harness
    /\ \E i \in 1 .. Len(env.agents), action \in GridActions :
          LET agent == env.agents[i]
              r == execute_action(env, agent, action)
          IN  /\ action = "Forward" => env.location[agent] \in Cells
              /\ env' = r.env
              /\ last' = Call("execute_action", agent, action, FALSE, None, r,
                              env)
    /\ UNCHANGED <<ctl, hist, clock>>

NextXY ==
    \/ XYAddObject
    \/ AddWalls
    \/ MoveTo
    \/ ExecuteAction

SpecXY == InitXY /\ [][NextXY]_vars

----------------------------------------------------------------------------
(* The grid vacuum model: a VacuumEnvironment stepped by a client; the      *)
(* programs of its agents return any action of the grid.                    *)

VacuumPool == {<<"Agent", 1>>, <<"Dirt", 1>>}

\* VacuumEnvironment(Width, Height): the constructor adds the walls.
InitVacuum ==
    /\ \E hd \in [AgentsOf(VacuumPool) -> Headings] \cup {<<>>} :
          env = add_walls(NewEnv("Vacuum", VacuumPool,
                                 [a \in AgentsOf(VacuumPool) |-> TRUE], hd,
                                 <<>>)).env
    /\ last = Call("init", NoObject, NoAction, FALSE, None,
                   Result(env, "none", "None"), env)
    /\ IdleCtl

VacuumAddObject == AddObject(VacuumPool, {None} \cup PlaceCells, {None})

NextVacuum ==
    \/ VacuumAddObject
    \/ CallStep
    \/ StepPercept(GridActions)
    \/ StepExecute
    \/ StepExogenous

SpecVacuum == InitVacuum /\ [][NextVacuum]_vars

\* The grid vacuum model with run(steps) called by a client as well.
NextVacuumRun ==
    \/ VacuumAddObject
    \/ CallStep
    \/ CallRun
    \/ RunLoop
    \/ StepPercept(GridActions)
    \/ StepExecute
    \/ StepExogenous

SpecVacuumRun == InitVacuum /\ [][NextVacuumRun]_vars

----------------------------------------------------------------------------
(* The three reference environments, their execute_action called directly   *)
(* with any action value, the ones they do not know included.               *)

EnvClasses == {"Trivial", "XY", "Vacuum"}

AnyActions == GridActions \cup VacuumActions \cup {NoneAction}

DirectPool(cls) == IF cls = "Trivial" THEN TrivialPool ELSE VacuumPool

InitDirect ==
    /\ \E cls \in EnvClasses,
          st \in [{loc_A, loc_B} -> {"Clean", "Dirty"}],
          hd \in [AgentsOf(VacuumPool) -> Headings] \cup {<<>>} :
          LET alive == [a \in AgentsOf(DirectPool(cls)) |-> TRUE]
          IN  env = CASE cls = "Trivial" ->
                           NewEnv(cls, TrivialPool, alive, <<>>, st)
                      [] cls = "XY" ->
                           NewEnv(cls, VacuumPool, alive, hd, <<>>)
                      [] OTHER ->
                           add_walls(NewEnv(cls, VacuumPool, alive, hd,
                                            <<>>)).env
    /\ last = Call("init", NoObject, NoAction, FALSE, None,
                   Result(env, "none", "None"), env)
    /\ IdleCtl

DirectAddObject ==
    AddObject(DirectPool(env.cls),
              IF env.cls = "Trivial" THEN {None, loc_A, loc_B}
              ELSE {None} \cup PlaceCells,
              IF env.cls = "Trivial" THEN TrivialDefaults ELSE {None})

\* env.execute_action(agent, action), called by a client
ExecuteDirect ==
    /\ pc = "idle"
    /\ UNCHANGED harness
    /\ clock < MaxCalls
    /\ \E i \in 1 .. Len(env.agents), action \in AnyActions :
          LET agent == env.agents[i]
              r == execute_action(env, agent, action)
          IN  /\ env' = r.env
              /\ last' = Call("execute_action", agent, action, FALSE, None, r,
                              env)
    /\ clock' = clock + 1
    /\ UNCHANGED <<ctl, hist>>

NextDirect ==
    \/ DirectAddObject
    \/ ExecuteDirect

SpecDirect == InitDirect /\ [][NextDirect]_vars

----------------------------------------------------------------------------
(* compare_agents and test_agent (as _docex's testv calls it) on            *)
(* TrivialVacuumEnvironments.  The environment objects live in test.store,  *)
(* a list of environment states indexed by object identity; `env` is the    *)
(* state of the object whose method is running.                             *)

\* n of compare_agents in the model (the code's default is 10)
CompareN == 2

\* steps of compare_agents in the model (the code's default is 1000)
CompareSteps == 1

\* The step budget of testv.
TestSteps == 4

\* The factories whose programs draw nothing.
Deterministic == Policies \ {"RandomVacuumAgent"}

\* The calls made: testv(A) on one environment for any factory A, or
\* compare_agents with two different factories among the deterministic ones.
TestCalls ==
    {[call |-> "testv", factories |-> <<A>>, n |-> 1, steps |-> TestSteps] :
        A \in Policies}
    \cup {[call |-> "compare_agents", factories |-> AB, n |-> CompareN,
           steps |-> CompareSteps] :
            AB \in {f \in Deterministic \X Deterministic : f[1] # f[2]}}

\* copy.copy(envs): a new list of the same environment objects
copy_shallow(store, ids) == [store |-> store, ids |-> ids]

\* copy.deepcopy(envs): a new list of new environment objects, each in the
\* state of the one it copies; an object listed twice is copied once
deepcopy(store, ids) ==
    [store |-> store \o [q \in 1 .. Len(ids) |-> store[ids[q]]],
     ids |-> [q \in 1 .. Len(ids) |-> Len(store) + index(ids, ids[q])]]

\* envs = [EnvFactory() for i in range(n)], EnvFactory being
\* TrivialVacuumEnvironment
InitCompare ==
    /\ \E c \in TestCalls :
       \E sts \in [1 .. c.n -> [{loc_A, loc_B} -> {"Clean", "Dirty"}]] :
          LET made == [i \in 1 .. c.n |->
                         NewEnv("Trivial", {}, <<>>, <<>>, sts[i])]
          IN  /\ test = [call |-> c.call, factories |-> c.factories,
                         steps |-> c.steps, store |-> made, orig |-> made,
                         envs |-> [i \in 1 .. c.n |-> i], copies |-> <<>>,
                         k |-> 0, j |-> 0, agent |-> NoObject, total |-> 0,
                         results |-> <<>>, log |-> <<>>, phase |-> "start"]
              /\ env = made[c.n]
    /\ last = Call("init", NoObject, NoAction, FALSE, None,
                   Result(env, "none", "None"), env)
    /\ pc = "idle" /\ idx = 0 /\ actions = <<>> /\ percepts = <<>>
    /\ calls = <<>> /\ snapshot = None
    /\ run = NoRun
    /\ hist = <<>>
    /\ clock = 0
    /\ memory = <<>>

\* The steps of the run of _docex (e.run(5)) in the model.
DocexSteps == 5

\* _docex: e = TrivialVacuumEnvironment();
\* e.add_object(TraceAgent(ModelBasedVacuumAgent())); e.run(5).  TraceAgent
\* prints what the program is given and returns, and changes neither; the
\* one agent is added to the one environment and run as test_agent does it.
InitDocex ==
    /\ \E st \in [{loc_A, loc_B} -> {"Clean", "Dirty"}] :
          LET made == << NewEnv("Trivial", {}, <<>>, <<>>, st) >>
          IN  /\ test = [call |-> "docex",
                         factories |-> <<"ModelBasedVacuumAgent">>,
                         steps |-> DocexSteps, store |-> made, orig |-> made,
                         envs |-> <<1>>, copies |-> <<1>>,
                         k |-> 1, j |-> 0, agent |-> NoObject, total |-> 0,
                         results |-> <<>>, log |-> <<>>, phase |-> "env"]
              /\ env = made[1]
    /\ last = Call("init", NoObject, NoAction, FALSE, None,
                   Result(env, "none", "None"), env)
    /\ pc = "idle" /\ idx = 0 /\ actions = <<>> /\ percepts = <<>>
    /\ calls = <<>> /\ snapshot = None
    /\ run = NoRun
    /\ hist = <<>>
    /\ clock = 0
    /\ memory = <<>>

\* test_agent(A, steps, copy.deepcopy(envs)) for the next factory A
TestAgentCall ==
    /\ pc = "idle" /\ test.phase = "start"
    /\ test.k < Len(test.factories)
    /\ LET d == deepcopy(test.store, test.envs)
       IN  test' = [test EXCEPT !.store = d.store, !.copies = d.ids,
                                !.k = @ + 1, !.j = 0, !.total = 0,
                                !.phase = "env"]
    /\ UNCHANGED <<env, last, ctl, hist, clock, memory>>

\* AgentFactory(): an agent that did not exist before.
NewAgent(t) == <<"Agent", (t.k - 1) * Len(t.envs) + t.j + 1>>

\* agent = AgentFactory(); env.add_object(agent), for the next env of envs
TestAddObject ==
    /\ pc = "idle" /\ test.phase = "env"
    /\ test.j < Len(test.copies)
    /\ LET id == test.copies[test.j + 1]
           agent == NewAgent(test)
           made == [test.store[id] EXCEPT !.alive = setattr(@, agent, TRUE),
                                          !.bump = setattr(@, agent, FALSE)]
       IN  \E rnd \in TrivialDefaults :
             LET r == add_object(made, agent, FALSE, None, rnd)
             IN  /\ env' = r.env
                 /\ last' = Call("add_object", agent, NoAction, FALSE, None, r,
                                 made)
                 /\ hist' = << <<NoObject, "__init__", made.status>>,
                               <<agent, "add_object", r.env.location[agent]>> >>
                 /\ memory' = setattr(memory, agent,
                                      NewMemory(test.factories[test.k]))
                 /\ test' = [test EXCEPT
                               !.j = @ + 1, !.agent = agent,
                               !.phase = "added",
                               !.log = Append(@, [k |-> test.k, j |-> test.j + 1,
                                                  id |-> id, agent |-> agent,
                                                  pre |-> test.store[id],
                                                  post |-> None])]
    /\ UNCHANGED <<ctl, clock>>

\* env.run(steps)
TestRun ==
    /\ pc = "idle" /\ test.phase = "added"
    /\ run' = [active |-> TRUE, steps |-> test.steps, i |-> 0, ticks |-> 0,
               done0 |-> is_done(env)]
    /\ pc' = "run"
    /\ calls' = <<>>
    /\ test' = [test EXCEPT !.phase = "running"]
    /\ UNCHANGED <<env, last, idx, actions, percepts, snapshot, hist, clock,
                   memory>>

\* The values random.choice may draw in a call of the program.
Draws(mem) ==
    IF mem.policy = "RandomVacuumAgent" THEN VacuumActions ELSE {NoAction}

\* agent.program(self.percept(agent)) for the idx-th agent, the program being
\* the one its factory gave it
StepProgram ==
    /\ pc = "percept"
    /\ LET agent == env.agents[idx]
           p == percept(env, agent)
           nxt == AfterProgram(env, idx)
       IN  /\ \E draw \in Draws(memory[agent]) :
                 LET r == program(memory[agent], p, draw)
                 IN  /\ actions' = Append(actions, r.action)
                     /\ memory' = [memory EXCEPT ![agent] = r.mem]
           /\ percepts' = Append(percepts, p)
           /\ calls' = Append(calls, <<"percept", agent>>)
           /\ pc' = nxt[1] /\ idx' = nxt[2]
    /\ UNCHANGED <<env, last, snapshot, run, hist, clock, test>>

\* total += agent.performance, run() having returned; the environment
\* object is now in the state the run left
TestScore ==
    /\ pc = "idle" /\ test.phase = "running"
    /\ test' = [test EXCEPT
                  !.total = @ + env.performance[test.agent],
                  !.store[test.copies[test.j]] = env,
                  !.log[Len(test.log)].post = env,
                  !.phase = IF test.j < Len(test.copies) THEN "env"
                            ELSE "return"]
    /\ UNCHANGED <<env, last, ctl, hist, clock, memory>>

\* return float(total)/len(envs): the result is kept as <<A, total, len>>
TestReturn ==
    /\ pc = "idle" /\ test.phase = "return"
    /\ test' = [test EXCEPT
                  !.results = Append(@, <<test.factories[test.k], test.total,
                                          Len(test.copies)>>),
                  !.phase = IF test.k < Len(test.factories) THEN "start"
                            ELSE "done"]
    /\ UNCHANGED <<env, last, ctl, hist, clock, memory>>

\* env.run(steps) for an environment whose one agent has the program with
\* memory mem, draws[i] being what random.choice draws in the i-th tick:
\* the agent's performance when run() returns
RECURSIVE run_score(_, _, _, _, _)
run_score(e, mem, agent, draws, i) ==
    IF i > Len(draws) \/ is_done(e) THEN e.performance[agent]
    ELSE LET r == program(mem, percept(e, agent), draws[i])
             done == execute_action(e, agent, r.action).env
         IN  run_score(exogenous_change(done), r.mem, agent, draws, i + 1)

\* The body of test_agent's loop for a new TrivialVacuumEnvironment with the
\* statuses st: the agent's performance after add_object (default_location
\* drawing `start`) and run(Len(draws))
test_score(policy, st, start, draws) ==
    LET agent == <<"Agent", 1>>
        made == NewEnv("Trivial", {agent}, [a \in {agent} |-> TRUE], <<>>, st)
        added == add_object(made, agent, FALSE, None, start).env
    IN  run_score(added, NewMemory(policy), agent, draws, 1)

NextCompare ==
    \/ TestAgentCall
    \/ TestAddObject
    \/ TestRun
    \/ RunLoop
    \/ StepProgram
    \/ StepExecute
    \/ StepExogenous
    \/ TestScore
    \/ TestReturn

SpecCompare == InitCompare /\ [][NextCompare]_vars

\* add_object, then run(), whose ticks call the agent's own program.
NextDocex ==
    \/ TestAddObject
    \/ TestRun
    \/ RunLoop
    \/ StepProgram
    \/ StepExecute
    \/ StepExogenous

SpecDocex == InitDocex /\ [][NextDocex]_vars

----------------------------------------------------------------------------
(* Claims about step() and run(), checked on the two-location model. *)

InTick == pc \in {"percept", "act", "exo"}

\* The calls of a whole tick: a percept for every agent, then execute_action
\* for every agent, in the order of self.agents, then exogenous_change.
TickCalls(e) ==
    [i \in 1 .. Len(e.agents) |-> <<"percept", e.agents[i]>>]
    \o [i \in 1 .. Len(e.agents) |-> <<"execute_action", e.agents[i]>>]
    \o << <<"exogenous_change", NoObject>> >>

IsPrefix(s, t) == Len(s) <= Len(t) /\ SubSeq(t, 1, Len(s)) = s

\* C1: in a tick every percept is the percept of the environment as it was
\* when the tick began: while percepts are computed no action has been
\* applied, and the first execute_action comes after the last percept.
C1_PerceptsSeeTickStart ==
    InTick =>
      /\ \A i \in 1 .. Len(percepts) :
            percepts[i] = percept(snapshot, env.agents[i])
      /\ pc = "percept" => env = snapshot
      /\ pc \in {"act", "exo"} =>
            /\ Len(percepts) = Len(env.agents)
            /\ Len(actions) = Len(env.agents)
      /\ \A k \in 1 .. Len(calls) :
            calls[k][1] = "execute_action" => k > Len(env.agents)

\* Two agents at one Dirty location: the first has sucked it Clean, and the
\* percept the second got in this tick says Dirty.
C1_Witness ==
    /\ pc = "act" /\ idx = 2 /\ Len(env.agents) = 2
    /\ env.location[env.agents[1]] = env.location[env.agents[2]]
    /\ hist[Len(hist)] = <<env.agents[1], "Suck">>
    /\ env.status[env.location[env.agents[2]]] = "Clean"
    /\ percepts[2] = <<env.location[env.agents[2]], "Dirty">>

\* C2: a tick that is not done calls execute_action once for every agent of
\* self.agents, alive or not, in registration order, then exogenous_change
\* once; a step() on a done environment changes nothing.  It holds of the
\* two-location environment; in the grid vacuum environment an action that
\* raises (a turn, a Grab) ends step() before the remaining calls.
C2_AsClaimed ==
    /\ InTick => ~is_done(snapshot) /\ env.agents = snapshot.agents
    /\ IsPrefix(calls, TickCalls(env))
    /\ (~InTick /\ calls # <<>>) => calls = TickCalls(env)
    /\ last.op = "step" =>
         /\ is_done(last.pre) /\ env = last.pre
         /\ ~InTick /\ calls = <<>>

NoLiveAgent(e) ==
    \A i \in 1 .. Len(e.agents) :
        ~(hasattr(e.alive, e.agents[i]) /\ e.alive[e.agents[i]] = TRUE)

\* What holds of run() in every state.
RunInvariant ==
    /\ is_done(env) <=> NoLiveAgent(env)
    /\ Len(env.agents) = 0 => is_done(env)
    /\ run.ticks <= run.steps /\ run.i <= run.steps
    /\ run.done0 => run.ticks = 0
    /\ (run.active /\ InTick) => ~NoLiveAgent(snapshot)
    /\ (run.active /\ pc = "run") => run.ticks = run.i
    /\ (~run.active /\ run.steps > 0) =>
          run.ticks = IF NoLiveAgent(env) THEN 0 ELSE run.steps

\* C3: is_done() is true exactly when no registered agent is alive; run(steps)
\* ticks only while is_done() is false, at most `steps` times, not at all
\* when no agent is alive, and returns.
C3_RunStopsWhenDone == []RunInvariant /\ (run.active ~> ~run.active)

\* run(steps) with steps > 0 returned without a tick: the only agent is not
\* alive.
C3_Witness ==
    /\ pc = "idle" /\ ~run.active /\ run.steps > 0 /\ run.ticks = 0
    /\ Len(env.agents) = 1 /\ ~env.alive[env.agents[1]]

----------------------------------------------------------------------------
(* Claims about the two-location environment's scoring. *)

\* execute_action(agent, action) on the two-location environment, as the last
\* call shows it: Right and Left move to B and A at a cost of 1, Suck leaves
\* the location Clean and scores 10 exactly when it was Dirty.
TrivialActionEffect ==
    (last.op = "execute_action" /\ last.pre.cls = "Trivial") =>
      LET a == last.obj
          p == last.pre
      IN  /\ last.action = "Right" =>
                /\ env.location[a] = loc_B
                /\ env.performance[a] = p.performance[a] - 1
          /\ last.action = "Left" =>
                /\ env.location[a] = loc_A
                /\ env.performance[a] = p.performance[a] - 1
          /\ last.action = "Suck" =>
                /\ env.location[a] = p.location[a]
                /\ env.status[p.location[a]] = "Clean"
                /\ env.performance[a] =
                     p.performance[a]
                     + (IF p.status[p.location[a]] = "Dirty" THEN 10 ELSE 0)

BothDirty == [l \in {loc_A, loc_B} |-> "Dirty"]

\* The whole history: both locations Dirty, agent a added at `start`, and
\* then Suck, Right, Suck executed by a.
SuckRightSuck(a, start) ==
    hist = << <<NoObject, "__init__", BothDirty>>, <<a, "add_object", start>>,
              <<a, "Suck">>, <<a, "Right">>, <<a, "Suck">> >>

\* C10 as stated: from both locations Dirty, Suck, Right, Suck yields 19
\* wherever the agent starts.
C10_AsClaimed ==
    /\ TrivialActionEffect
    /\ \A a \in AgentsOf(TrivialPool), start \in {loc_A, loc_B} :
          SuckRightSuck(a, start) => env.performance[a] = 19

\* C10, amended: Right and Left move the agent to B and A and cost 1 each,
\* Suck cleans the location and scores 10 iff it was Dirty; from both
\* locations Dirty an agent that starts at A and does Suck, Right, Suck has
\* performance 19, and one that starts at B has 9.
C10_SuckRightSuckFromA ==
    /\ TrivialActionEffect
    /\ \A a \in AgentsOf(TrivialPool) :
          /\ SuckRightSuck(a, loc_A) => env.performance[a] = 19
          /\ SuckRightSuck(a, loc_B) => env.performance[a] = 9

\* An agent that started at A has done Suck, Right, Suck and scored 19.
C10_Witness ==
    \E a \in AgentsOf(TrivialPool) :
        /\ SuckRightSuck(a, loc_A)
        /\ last.op = "execute_action" /\ last.action = "Suck"
        /\ env.performance[a] = 19

----------------------------------------------------------------------------
(* Claims about add_object. *)

IsAgent(o) == isinstance(o, "Agent")

Count(seq, o) == Cardinality({i \in 1 .. Len(seq) : seq[i] = o})

\* C4 as stated: add_object appends one entry to objects per registration,
\* agents is the subsequence of objects made of the Agents, and objects_at
\* returns each entity at a location once.
C4_AsClaimed ==
    /\ env.agents = SelectSeq(env.objects, IsAgent)
    /\ \A o \in Registered(env) :
          /\ Count(env.objects, o) = 1
          /\ Count(objects_at(env, env.location[o]), o) = 1
    /\ (last.op = "add_object" /\ last.err = "none") =>
          env.objects = Append(last.pre.objects, last.obj)

\* C5 as stated: add_object sets the location to the explicit one, else to
\* default_location(entity), sets an Agent's performance to 0, and returns
\* the environment.
C5_AsClaimed ==
    last.op = "add_object" =>
      LET o == last.obj
          p == last.pre
      IN  /\ last.err = "none"
          /\ hasattr(env.location, o)
          /\ (last.given /\ last.arg # None) => env.location[o] = last.arg
          /\ ~(last.given /\ last.arg # None) =>
                \E rnd \in TrivialDefaults :
                    /\ default_location(p, o, rnd).err = "none"
                    /\ env.location[o] = default_location(p, o, rnd).ret
          /\ IsAgent(o) => env.performance[o] = 0
          /\ last.ret = "self"

----------------------------------------------------------------------------
(* Claims about movement on the grid. *)

\* An Obstacle (a Wall is one) is registered at location c.
ObstacleAt(e, c) ==
    \E x \in Registered(e) :
        ClassOf(x) \in {"Obstacle", "Wall"} /\ e.location[x] = c

\* Every attribute of every object but `o` is as in p, and so is the rest of
\* the environment; o's attributes other than location and bump too.
OnlyMoved(e, p, o) ==
    /\ DOMAIN e.location = DOMAIN p.location
    /\ DOMAIN e.bump = (DOMAIN p.bump) \cup {o}
    /\ \A x \in (DOMAIN p.location) \ {o} : e.location[x] = p.location[x]
    /\ \A x \in (DOMAIN p.bump) \ {o} : e.bump[x] = p.bump[x]
    /\ [e EXCEPT !.location = p.location, !.bump = p.bump] = p

\* C6: move_to(object, destination) leaves the object where it is and sets
\* its bump when an Obstacle is registered at the destination; else it
\* moves the object there and clears its bump, whatever else is in the cell.
\* Nothing else changes.
C6_MoveToBlockedByObstacle ==
    last.op = "move_to" =>
      LET o == last.obj
          p == last.pre
          d == last.arg
      IN  /\ last.err = "none"
          /\ OnlyMoved(env, p, o)
          /\ IF ObstacleAt(p, d)
             THEN env.location[o] = p.location[o] /\ env.bump[o] = TRUE
             ELSE env.location[o] = d /\ env.bump[o] = FALSE

\* A move into a cell that holds a Wall was refused.
C6_Witness ==
    /\ last.op = "move_to"
    /\ \E x \in Registered(env) :
          ClassOf(x) = "Wall" /\ env.location[x] = last.arg
    /\ env.location[last.obj] # last.arg
    /\ env.bump[last.obj]

\* C7 as stated: after execute_action(agent, 'Forward') the agent has not
\* moved and its bump is true when the cell ahead holds an Obstacle, and it
\* has moved and its bump is false when not; after another action its bump
\* is false.
C7_AsClaimed ==
    (last.op = "execute_action" /\ last.pre.cls = "XY"
       /\ hasattr(last.pre.heading, last.obj)) =>
      LET a == last.obj
          p == last.pre
          d == vector_add(p.heading[a], p.location[a])
      IN  IF last.action = "Forward"
          THEN IF ObstacleAt(p, d)
               THEN env.location[a] = p.location[a] /\ env.bump[a] = TRUE
               ELSE env.location[a] = d /\ env.bump[a] = FALSE
          ELSE env.bump[a] = FALSE

Left(h) == <<-h[2], h[1]>>

Right(h) == <<h[2], -h[1]>>

\* C8 as stated: TurnLeft takes East to North to West to South to East and
\* TurnRight the other way round, without error.
C8_AsClaimed ==
    (last.op = "execute_action" /\ last.pre.cls = "XY"
       /\ last.action \in {"TurnLeft", "TurnRight"}
       /\ hasattr(last.pre.heading, last.obj)
       /\ last.pre.heading[last.obj] \in Headings) =>
      /\ last.err = "none"
      /\ env.heading[last.obj] =
           IF last.action = "TurnLeft" THEN Left(last.pre.heading[last.obj])
           ELSE Right(last.pre.heading[last.obj])

Border(e) ==
    {c \in Cells : \/ c[1] = 0 \/ c[1] = e.width - 1
                   \/ c[2] = 0 \/ c[2] = e.height - 1}

Interior(e, c) ==
    /\ 0 < c[1] /\ c[1] < e.width - 1
    /\ 0 < c[2] /\ c[2] < e.height - 1

Walled(e) ==
    \A c \in Border(e) :
        \E x \in Registered(e) : ClassOf(x) = "Wall" /\ e.location[x] = c

\* C9: after add_walls() every border cell holds a Wall, it keeps it, and
\* a TurnLeft, TurnRight or Forward of an agent on an interior cell of the
\* walled grid leaves the agent on an interior cell.
C9_WalledAgentStaysInside ==
    /\ last.op = "add_walls" => Walled(env)
    /\ Walled(last.pre) => Walled(env)
    /\ (last.op = "execute_action"
          /\ last.action \in {"TurnLeft", "TurnRight", "Forward"}
          /\ Walled(last.pre)
          /\ Interior(last.pre, last.pre.location[last.obj])) =>
         Interior(env, env.location[last.obj])

\* On the walled grid an agent went Forward from an interior cell to another.
C9_Witness ==
    /\ last.op = "execute_action" /\ last.action = "Forward"
    /\ Walled(last.pre)
    /\ Interior(last.pre, last.pre.location[last.obj])
    /\ env.location[last.obj] # last.pre.location[last.obj]
    /\ Interior(env, env.location[last.obj])

----------------------------------------------------------------------------
(* Claims about the grid vacuum environment. *)

DirtAt(e, c) ==
    \E x \in Registered(e) : ClassOf(x) = "Dirt" /\ e.location[x] = c

\* The performance after execute_action(a, action) called in state p.
VacuumScore(p, a, action) ==
    p.performance[a] - 1
    + (IF action = "Suck" /\ DirtAt(p, p.location[a]) THEN 100 ELSE 0)

\* execute_action, returning or raising, has charged 1 and awarded 100 for a
\* Suck on Dirt, and has left the other agents' performance alone.
VacuumActionScored ==
    (last.op = "execute_action" /\ last.pre.cls = "Vacuum") =>
      /\ env.performance[last.obj] =
            VacuumScore(last.pre, last.obj, last.action)
      /\ \A x \in (DOMAIN env.performance) \ {last.obj} :
            env.performance[x] = last.pre.performance[x]

\* A step that changes a performance is an execute_action, or the add_object
\* that gives a new agent its performance of 0.
PerformanceChangedByActionOnly ==
    env'.performance # env.performance =>
      \/ /\ last'.op = "execute_action" /\ last'.pre = env
      \/ /\ last'.op = "add_object" /\ last'.pre = env
         /\ env'.performance = setattr(env.performance, last'.obj, 0)
         /\ ~hasattr(env.performance, last'.obj)

\* C11: in the grid vacuum environment every executed action lowers the
\* agent's performance by 1, a Suck with Dirt at the agent's cell also raises
\* it by 100, and nothing else changes a performance.
C11_VacuumScoring == []VacuumActionScored /\ [][PerformanceChangedByActionOnly]_vars

\* A Suck on a cell that holds Dirt has netted 99.
C11_Witness ==
    /\ last.op = "execute_action" /\ last.action = "Suck"
    /\ last.pre.cls = "Vacuum"
    /\ DirtAt(last.pre, last.pre.location[last.obj])
    /\ env.performance[last.obj] = last.pre.performance[last.obj] + 99

\* The last call was a Forward of an agent facing a cell with an Obstacle.
BlockedForward ==
    /\ last.op = "execute_action" /\ last.action = "Forward"
    /\ hasattr(last.pre.heading, last.obj)
    /\ ObstacleAt(last.pre, vector_add(last.pre.heading[last.obj],
                                       last.pre.location[last.obj]))

\* The first agent has its percept of this tick, and the last call is the
\* action it executed in the tick before.
PerceptAfterAction ==
    /\ env.cls = "Vacuum"
    /\ pc = "act" /\ idx = 1
    /\ last.op = "execute_action" /\ last.obj = env.agents[1]
    /\ last.err = "none"

\* C16 as stated: the percept in the tick after a blocked Forward says Bump,
\* the percept after any other action says None, and it says Dirty exactly
\* when Dirt is registered at the agent's cell.
C16_AsClaimed ==
    PerceptAfterAction =>
      /\ percepts[1][2] = IF BlockedForward THEN "Bump" ELSE "None"
      /\ percepts[1][1] = IF DirtAt(env, env.location[env.agents[1]])
                          THEN "Dirty" ELSE "Clean"

\* C18 as stated: a Suck on a cell holding Dirt leaves the cell without
\* Dirt, so that the next percept there is Clean, and the awards of an
\* agent never exceed 100 for each Dirt placed in the environment.
C18_AsClaimed ==
    /\ (last.op = "execute_action" /\ last.action = "Suck"
          /\ last.pre.cls = "Vacuum"
          /\ DirtAt(last.pre, last.pre.location[last.obj])) =>
         /\ ~DirtAt(env, env.location[last.obj])
         /\ Vacuum_percept(env, last.obj)[1] = "Clean"
    /\ \A a \in DOMAIN env.performance :
          env.performance[a] <=
            100 * Cardinality({x \in Registered(env) : ClassOf(x) = "Dirt"})

\* The action values each environment's execute_action tests for.
Recognised(cls) ==
    CASE cls = "Trivial" -> {"Right", "Left", "Suck"}
      [] cls = "XY" -> {"TurnRight", "TurnLeft", "Forward", "Grab", "Release"}
      [] OTHER -> {"TurnRight", "TurnLeft", "Forward", "Grab", "Release",
                   "Suck"}

UnrecognisedCall ==
    /\ last.op = "execute_action"
    /\ last.action \notin Recognised(last.pre.cls)

\* What an unrecognised action leaves alone in every environment: where the
\* entities are, the headings, what is held, and which locations are dirty.
UnrecognisedKeeps ==
    /\ last.err = "none"
    /\ env.location = last.pre.location
    /\ env.heading = last.pre.heading
    /\ env.holding = last.pre.holding
    /\ env.status = last.pre.status
    /\ env.objects = last.pre.objects

\* C14 as stated: an action the environment does not recognise changes no
\* location, heading, holding, performance or dirt status.
C14_AsClaimed ==
    UnrecognisedCall =>
      /\ UnrecognisedKeeps
      /\ env.performance = last.pre.performance

\* C14, amended: an action the environment does not recognise changes no
\* location, heading, holding or dirt status; it changes no performance in
\* the two-location environment and the plain grid, and in the grid vacuum
\* environment it lowers the agent's performance by 1.
C14_UnrecognisedCostsOneInVacuum ==
    UnrecognisedCall =>
      /\ UnrecognisedKeeps
      /\ env.performance =
            IF last.pre.cls = "Vacuum"
            THEN [last.pre.performance EXCEPT ![last.obj] = @ - 1]
            ELSE last.pre.performance

\* A NoOp in the grid vacuum environment has cost 1.
C14_Witness ==
    /\ UnrecognisedCall /\ last.action = "NoOp" /\ last.pre.cls = "Vacuum"
    /\ env.performance[last.obj] = last.pre.performance[last.obj] - 1

----------------------------------------------------------------------------
(* Claims about headings and holding in the spatial environments. *)

Spatial(e) == e.cls \in {"XY", "Vacuum"}

\* C17 as stated: every agent registered in a spatial environment has a
\* heading among the four canonical vectors, so that its Forward and its
\* turns are defined (they raise nothing).
C17_AsClaimed ==
    Spatial(env) =>
      /\ \A i \in 1 .. Len(env.agents) :
            /\ hasattr(env.heading, env.agents[i])
            /\ env.heading[env.agents[i]] \in Headings
      /\ (last.op = "execute_action"
            /\ last.action \in {"Forward", "TurnLeft", "TurnRight"}) =>
           last.err = "none"

\* C19 as stated: Grab raises nothing and appends to holding an entity at
\* the agent's cell, or leaves holding as it is when none is grabable;
\* Release removes the entity grabbed last when there is one; neither
\* changes a location.
C19_AsClaimed ==
    (last.op = "execute_action" /\ Spatial(last.pre)) =>
      LET a == last.obj
          p == last.pre
      IN  /\ last.action = "Grab" =>
                /\ last.err = "none"
                /\ env.location = p.location
                /\ \/ env.holding[a] = p.holding[a]
                   \/ \E x \in Registered(p) :
                         /\ p.location[x] = p.location[a]
                         /\ env.holding[a] = Append(p.holding[a], x)
          /\ last.action = "Release" =>
                /\ last.err = "none"
                /\ env.location = p.location
                /\ env.holding[a] =
                     IF Len(p.holding[a]) > 0
                     THEN SubSeq(p.holding[a], 1, Len(p.holding[a]) - 1)
                     ELSE p.holding[a]

----------------------------------------------------------------------------
(* Claims about agents in conflict. *)

\* Both agents of a tick stood at one Dirty location, perceived Dirty and
\* chose Suck, and both actions have been executed.
BothSucked ==
    /\ env.cls = "Trivial" /\ pc = "exo" /\ Len(env.agents) = 2
    /\ snapshot.location[env.agents[1]] = snapshot.location[env.agents[2]]
    /\ percepts[1][2] = "Dirty" /\ percepts[2][2] = "Dirty"
    /\ actions = <<"Suck", "Suck">>

\* C20: when two agents at one Dirty location both Suck in a tick, the one
\* registered first is awarded 10, the other nothing, and the location is
\* Clean at the end of the tick.
C20_FirstRegisteredWins ==
    BothSucked =>
      /\ env.performance[env.agents[1]] =
            snapshot.performance[env.agents[1]] + 10
      /\ env.performance[env.agents[2]] =
            snapshot.performance[env.agents[2]]
      /\ env.status[env.location[env.agents[1]]] = "Clean"

\* Both sucked, and the first alone scored.
C20_Witness ==
    /\ BothSucked
    /\ env.performance[env.agents[1]] >
          env.performance[env.agents[2]]
    /\ snapshot.performance[env.agents[1]] =
          snapshot.performance[env.agents[2]]

----------------------------------------------------------------------------
(* Claims about compare_agents and test_agent. *)

\* The entries of the log whose run has been scored.
Scored == {i \in 1 .. Len(test.log) : test.log[i].post # None}

\* C12: the n environments compare_agents made stay as they were made; every
\* policy runs in its own copies, each in the state of the original before
\* the agent is registered; a copy gets one agent and, once its run is
\* scored, is not touched again.
C12_PoliciesRunInOwnCopies ==
    /\ \A i \in 1 .. Len(test.envs) :
          test.store[test.envs[i]] = test.orig[i]
    /\ \A i \in 1 .. Len(test.log) :
          LET l == test.log[i]
          IN  /\ l.pre = test.orig[l.j]
              /\ \A q \in 1 .. Len(test.envs) : l.id # test.envs[q]
              /\ \A q \in 1 .. Len(test.log) :
                    q # i => test.log[q].id # l.id
              /\ i \in Scored =>
                    /\ test.store[l.id] = l.post
                    /\ l.post.agents = Append(l.pre.agents, l.agent)
                    /\ l.post.objects = Append(l.pre.objects, l.agent)

\* compare_agents has run both policies in every environment, and the run of
\* the first policy moved its agent.
C12_Witness ==
    /\ test.call = "compare_agents" /\ test.phase = "done"
    /\ Len(test.results) = 2 /\ Len(test.log) = 2 * CompareN
    /\ Scored = 1 .. Len(test.log)
    /\ test.log[1].post.performance[test.log[1].agent] # 0

\* What random.choice can draw in a tick of a program of the policy.
DrawsOf(policy) == Draws(NewMemory(policy))

RECURSIVE Sum(_, _)
Sum(f, S) ==
    IF S = {} THEN 0
    ELSE LET x == CHOOSE x \in S : TRUE
         IN  f[x] + Sum(f, S \ {x})

\* The initial configurations: the statuses of A and B, where the agent is.
Configs ==
    [{loc_A, loc_B} -> {"Clean", "Dirty"}] \X TrivialDefaults

\* The scores of the policy in configuration c, summed over all sequences
\* of TestSteps draws that begin with `drawn`.
RECURSIVE DrawsSum(_, _, _)
DrawsSum(policy, c, drawn) ==
    IF Len(drawn) = TestSteps THEN test_score(policy, c[1], c[2], drawn)
    ELSE Sum([a \in DrawsOf(policy) |->
                DrawsSum(policy, c, Append(drawn, a))],
             DrawsOf(policy))

\* The scores of the policy summed over all configurations and all draws.
ScoreSum(policy) ==
    Sum([c \in Configs |-> DrawsSum(policy, c, <<>>)], Configs)

RECURSIVE Power(_, _)
Power(b, n) == IF n = 0 THEN 1 ELSE b * Power(b, n - 1)

\* The number of equally likely cases ScoreSum sums over.
Cases(policy) ==
    Cardinality(Configs) * Power(Cardinality(DrawsOf(policy)), TestSteps)

\* The mean score of policy P is above that of policy Q.
MeanAbove(P, Q) == ScoreSum(P) * Cases(Q) > ScoreSum(Q) * Cases(P)

\* lo2 / 2 < mean score of policy P < hi
MeanWithin(P, lo2, hi) ==
    /\ lo2 * Cases(P) < 2 * ScoreSum(P)
    /\ ScoreSum(P) < hi * Cases(P)

\* The four means are ordered and lie in (7, 11), (5, 9), (2, 6), (0.5, 3).
MeansAsClaimed ==
    /\ MeanAbove("ModelBasedVacuumAgent", "ReflexVacuumAgent")
    /\ MeanAbove("ReflexVacuumAgent", "TableDrivenVacuumAgent")
    /\ MeanAbove("TableDrivenVacuumAgent", "RandomVacuumAgent")
    /\ MeanWithin("ModelBasedVacuumAgent", 14, 11)
    /\ MeanWithin("ReflexVacuumAgent", 10, 9)
    /\ MeanWithin("TableDrivenVacuumAgent", 4, 6)
    /\ MeanWithin("RandomVacuumAgent", 1, 3)

\* What random.choice drew in the ticks of the run the history shows.
Drawn(policy) ==
    [i \in 1 .. TestSteps |->
       IF policy = "RandomVacuumAgent" THEN hist[2 + i][2] ELSE NoAction]

\* testv(A) has returned: its result is the score of A for the statuses the
\* environment was made with, the location add_object drew and the actions
\* random.choice drew.
TestvResult ==
    (test.call = "testv" /\ test.phase = "done") =>
      LET A == test.factories[1]
      IN  test.results =
            << <<A, test_score(A, test.orig[1].status, hist[2][3], Drawn(A)),
                 1>> >>

\* C13: with a budget of 4 steps, the mean score over all initial
\* configurations (and, for the random policy, all action sequences) of
\* ModelBasedVacuumAgent is above that of ReflexVacuumAgent, above that of
\* TableDrivenVacuumAgent, above that of RandomVacuumAgent, the means lying
\* in (7, 11), (5, 9), (2, 6) and (0.5, 3); the scores averaged are the ones
\* testv returns.
C13_MeanScoresOrdered == TestvResult /\ MeansAsClaimed

\* testv(ModelBasedVacuumAgent) returned 19: both locations were Dirty.
C13_Witness ==
    /\ test.call = "testv" /\ test.phase = "done"
    /\ test.results = << <<"ModelBasedVacuumAgent", 19, 1>> >>

\* The action ReflexVacuumAgent is to return for a percept.
ReflexRule(location, status) ==
    CASE status = "Dirty" -> "Suck"
      [] status = "Clean" /\ location = loc_A -> "Right"
      [] status = "Clean" /\ location = loc_B -> "Left"

\* The first agent of the environment is a ReflexVacuumAgent whose program
\* has returned in this tick.
ReflexAnswered ==
    /\ test.call # "none" /\ pc \in {"act", "exo"}
    /\ memory[env.agents[1]].policy = "ReflexVacuumAgent"

\* C15: the ReflexVacuumAgent program returns Suck for a Dirty percept,
\* Right for Clean at A and Left for Clean at B, in every tick, and keeps
\* nothing from one call to the next.
C15_ReflexUsesPerceptOnly ==
    ReflexAnswered =>
      /\ actions[1] = ReflexRule(percepts[1][1], percepts[1][2])
      /\ memory[env.agents[1]] = NewMemory("ReflexVacuumAgent")

\* In its fourth tick the agent is back at a location it has seen Clean and
\* goes Right again.
C15_Witness ==
    /\ ReflexAnswered /\ run.ticks = TestSteps
    /\ percepts[1] = <<loc_A, "Clean">> /\ actions[1] = "Right"
    /\ hist[2][3] = loc_A

----------------------------------------------------------------------------
(* Claims about what a behaviour as a whole can reach. *)

\* The moves (Right, Left) agent a has executed so far; each cost 1.
Moves(a) ==
    Cardinality({i \in 1 .. Len(hist) :
                   hist[i][1] = a /\ hist[i][2] \in {"Right", "Left"}
                     /\ Len(hist[i]) = 2})

\* The +10 awards agent a has received so far, times 10.
Awards(a) == env.performance[a] + Moves(a)

RECURSIVE SumAwards(_)
SumAwards(i) ==
    IF i > Len(env.agents) THEN 0
    ELSE Awards(env.agents[i]) + SumAwards(i + 1)

\* The locations that were Dirty when the environment was made.
InitiallyDirty == {l \in {loc_A, loc_B} : hist[1][3][l] = "Dirty"}

\* The awards of all agents together are at most 10 for each location that
\* was Dirty at first, and so no performance is above 20.
AwardsBounded ==
    /\ SumAwards(1) <= 10 * Cardinality(InitiallyDirty)
    /\ \A a \in DOMAIN env.performance : env.performance[a] <= 20
    /\ \A l \in {loc_A, loc_B} :
          env.status[l] = "Dirty" => l \in InitiallyDirty

\* A step leaves a Clean location Clean.
CleanStaysClean ==
    \A l \in {loc_A, loc_B} :
        env.status[l] = "Clean" => env'.status[l] = "Clean"

\* C21: in the two-location environment no location goes from Clean to
\* Dirty, the +10 awards of all agents together are at most 10 times the
\* number of initially Dirty locations, and no performance exceeds 20.
C21_AwardsBoundedByInitialDirt == []AwardsBounded /\ [][CleanStaysClean]_vars

\* Both locations were Dirty and two agents have collected an award each.
C21_Witness ==
    /\ Cardinality(InitiallyDirty) = 2 /\ Len(env.agents) = 2
    /\ Awards(env.agents[1]) = 10 /\ Awards(env.agents[2]) = 10
    /\ \A l \in {loc_A, loc_B} : env.status[l] = "Clean"

\* A step changes no alive flag.
AliveKept == env'.alive = env.alive

\* During a run is_done() is what it was when run() was called, and a
\* run(steps) that has ended in an environment with a live agent has
\* performed `steps` ticks.
RunPerformsSteps ==
    /\ (run.active \/ run.steps > 0) => is_done(env) = run.done0
    /\ (~run.active /\ run.steps > 0 /\ ~run.done0) => run.ticks = run.steps

\* C22 as stated: no operation changes an alive flag, is_done() does not
\* change during a run, and run(steps) with a live agent performs exactly
\* `steps` ticks.  It holds of the two-location environment; in the grid
\* vacuum environment an action that raises ends run() in its first tick.
C22_AsClaimed == []RunPerformsSteps /\ [][AliveKept]_vars

----------------------------------------------------------------------------
(* Claims about ModelBasedVacuumAgent alone in the two-location world. *)

BothClean == \A l \in {loc_A, loc_B} : env.status[l] = "Clean"

\* Three ticks of run() are complete.
ThreeTicksDone == run.ticks > 3 \/ (run.ticks = 3 /\ ~InTick)

\* The agent's performance after its first three ticks, computed from the
\* statuses the environment was made with and the location the agent got.
AfterThree ==
    test_score("ModelBasedVacuumAgent", test.orig[1].status, hist[2][3],
               <<NoAction, NoAction, NoAction>>)

\* The agent's model has the location it is not at as Clean, and its
\* program, called now, would return NoOp: with both locations Clean this
\* is so again after that call, whatever the number of ticks.
Settled ==
    /\ \A l \in {loc_A, loc_B} \ {env.location[test.agent]} :
          memory[test.agent].model[l] = "Clean"
    /\ program(memory[test.agent], percept(env, test.agent),
               NoAction).action = "NoOp"

\* C23: a ModelBasedVacuumAgent alone in the two-location environment has
\* made both locations Clean when three ticks are complete; in every later
\* tick its program returns NoOp and its performance stays what it was
\* after the third tick, which is at least -1.
C23_ModelBasedSettles ==
    (test.call = "docex" /\ test.phase = "running") =>
      /\ env.performance[test.agent] >= -1
      /\ ThreeTicksDone =>
            /\ BothClean
            /\ Settled
            /\ env.performance[test.agent] = AfterThree
            /\ (pc \in {"act", "exo"}) => actions = <<"NoOp">>

\* Both locations were Dirty; in its fifth tick the agent answers NoOp with
\* the 19 it had after the third.
C23_Witness ==
    /\ test.call = "docex" /\ test.phase = "running"
    /\ run.ticks = 5 /\ pc = "act" /\ actions = <<"NoOp">>
    /\ test.orig[1].status = BothDirty
    /\ env.performance[test.agent] = 19

====
